---- MODULE Spec2Model ----
(***************************************************************************)
(* Worker pipeline of wireguard-rs (src/wireguard/workers.rs) running on   *)
(* the Linux UDP bind (src/platform/linux/udp.rs).                         *)
(*                                                                         *)
(* Three kinds of OS threads share the device state `wg`:                  *)
(*   tun_worker        reads IP packets, pads them, hands them to router   *)
(*   udp_worker        one per reader (V4, V6); demultiplexes datagrams    *)
(*   handshake_worker  drains the handshake channel                        *)
(*                                                                         *)
(* External collaborators (handshake engine, router, TUN reader, kernel)   *)
(* are not part of the files modelled; their results are inputs drawn      *)
(* with \E and every call made to them is recorded in last.calls, the      *)
(* list of calls made by the step that was taken last.                     *)
(***************************************************************************)
EXTENDS Integers, Sequences, FiniteSets, TLC

(***************************************************************************)
(* Program constants.  They are imported by workers.rs (lines 21-26) from  *)
(* modules outside the two files; TYPE_* and the sizes are the WireGuard   *)
(* wire values.  THRESHOLD_UNDER_LOAD is scaled down so that the           *)
(* threshold can be crossed within the bounds below; the model never       *)
(* relies on its value.                                                    *)
(***************************************************************************)
MESSAGE_PADDING_MULTIPLE == 16
SIZE_MESSAGE_PREFIX == 16
CAPACITY_MESSAGE_POSTFIX == 16
MAX_HANDSHAKE_MSG_SIZE == 148
TYPE_INITIATION == 1
TYPE_RESPONSE == 2
TYPE_COOKIE_REPLY == 3
TYPE_TRANSPORT == 4
THRESHOLD_UNDER_LOAD == 1
DURATION_UNDER_LOAD == 1
TIME_HORIZON == 1000

(***************************************************************************)
(* Bounds of the model.                                                    *)
(***************************************************************************)
\* capacity of the bounded handshake channel
MaxQueue == 1
\* number of handshake datagrams offered to the UDP workers in one run of
\* SpecLoad and of SpecDemux
MaxLoad == 3
MaxDemux == 2
\* number of jobs (handshake datagrams and New jobs) produced in one run of
\* SpecHandshake
MaxJobs == 2
\* number of handshake workers
NumHandshakeWorkers == 1
\* largest MTU for which padding is computed for every size
MaxPaddingMtu == 40
\* last value of the clock
MaxNow == 2

Readers == {"V4", "V6"}
HandshakeWorkers == 1..NumHandshakeWorkers
PublicKeys == {1, 2}
MtuValues == {0, 20}

Min(a, b) == IF a < b THEN a ELSE b

(***************************************************************************)
(* The host.  The byte order of the target decides what the conversions    *)
(* between integers and memory do; it is fixed when the program starts.    *)
(***************************************************************************)
VARIABLE host

Hosts == {"little", "big"}

Reverse(s) == [i \in 1..Len(s) |-> s[Len(s) + 1 - i]]

(***************************************************************************)
(* Integers of the socket structures.  A u16, u32 or u128 is kept as the   *)
(* sequence of its base-256 digits, most significant digit first; a byte   *)
(* array ([u8; 16]) is kept as the sequence of its bytes in memory.        *)
(***************************************************************************)
\* uN::to_be: the integer whose memory image is the big-endian image of v
to_be(h, v) == IF h = "little" THEN Reverse(v) ELSE v

\* uN::from_ne_bytes: the integer whose memory image is b
from_ne_bytes(h, b) == IF h = "little" THEN Reverse(b) ELSE b

\* uN::to_ne_bytes: the memory image of v
to_ne_bytes(h, v) == IF h = "little" THEN Reverse(v) ELSE v

\* u32::from(Ipv4Addr): the octets a.b.c.d are the digits of the integer
u32_from_Ipv4Addr(ip) == ip

\* Ipv4Addr::from(u32) and Ipv6Addr::from(u128): the digits of the integer
\* are the octets of the address
IpAddr_from_int(v) == v

ZeroBytes(n) == [i \in 1..n |-> 0]

(***************************************************************************)
(* Socket addresses (std::net::SocketAddr):                                *)
(*   <<"V4", octets, port>>  and  <<"V6", octets, port, flowinfo, scope>>  *)
(* the port being a u16 (two digits).                                      *)
(* Endpoints (udp.rs 35-43, 64-67): <<family, dst, info>>, dst holding the *)
(* fields of the sockaddr and info the fields of the packet info.          *)
(***************************************************************************)
LinuxEndpoint(fam, dst, info) == <<fam, dst, info>>

\* udp.rs 83-116
from_address(h, addr) ==
    IF addr[1] = "V4"
    THEN LinuxEndpoint("V4",
             [sin_port |-> addr[3],
              s_addr   |-> to_be(h, u32_from_Ipv4Addr(addr[2]))],
             [ipi_ifindex  |-> 0,
              ipi_spec_dst |-> ZeroBytes(4),
              ipi_addr     |-> ZeroBytes(4)])
    ELSE LinuxEndpoint("V6",
             [sin6_port     |-> addr[3],
              sin6_flowinfo |-> addr[4],
              s6_addr       |-> addr[2],
              sin6_scope_id |-> addr[5]],
             [ipi6_addr    |-> ZeroBytes(16),
              ipi6_ifindex |-> 0])

\* udp.rs 118-133 on a host of byte order h
into_address_on(h, e) ==
    IF e[1] = "V4"
    THEN <<"V4", IpAddr_from_int(e[2].s_addr), e[2].sin_port>>
    ELSE <<"V6", IpAddr_from_int(from_ne_bytes(h, e[2].s6_addr)),
           e[2].sin6_port, e[2].sin6_flowinfo, e[2].sin6_scope_id>>

\* udp.rs 118-133
into_address(e) == into_address_on(host, e)

\* udp.rs 70-81
clear_src(e) ==
    IF e[1] = "V4"
    THEN LinuxEndpoint("V4", e[2],
             [e[3] EXCEPT !.ipi_ifindex = 0, !.ipi_spec_dst = ZeroBytes(4)])
    ELSE LinuxEndpoint("V6", e[2],
             [ipi6_addr |-> ZeroBytes(16), ipi6_ifindex |-> 0])

(***************************************************************************)
(* What recvmsg delivers with a datagram: the address of the sender and    *)
(* the packet info: the interface the datagram arrived on and the local    *)
(* address it was sent to.  Addresses and ports are in network byte order  *)
(* in the memory the kernel fills.                                         *)
(***************************************************************************)
\* udp.rs 230-263: the sockaddr_in and in_pktinfo the kernel filled
read4_endpoint(h, sender, pktinfo) ==
    LinuxEndpoint("V4",
        [sin_port |-> from_ne_bytes(h, sender[3]),
         s_addr   |-> from_ne_bytes(h, sender[2])],
        [ipi_ifindex  |-> pktinfo.ifindex,
         ipi_spec_dst |-> from_ne_bytes(h, pktinfo.local),
         ipi_addr     |-> from_ne_bytes(h, pktinfo.local)])

\* udp.rs 183-213: the sockaddr_in6 and in6_pktinfo the kernel filled
read6_endpoint(h, sender, pktinfo) ==
    LinuxEndpoint("V6",
        [sin6_port     |-> from_ne_bytes(h, sender[3]),
         sin6_flowinfo |-> sender[4],
         s6_addr       |-> sender[2],
         sin6_scope_id |-> sender[5]],
        [ipi6_addr    |-> pktinfo.local,
         ipi6_ifindex |-> pktinfo.ifindex])

\* a sender and a local address of each family
Sender4 == <<"V4", <<192, 0, 2, 7>>, <<202, 108>>>>
Sender6 == <<"V6", <<32, 1, 13, 184, 0, 0, 0, 0, 0, 0, 0, 0, 0, 0, 0, 7>>,
             <<202, 108>>, 0, 0>>
PktInfo4 == [ifindex |-> 2, local |-> <<198, 51, 100, 1>>]
PktInfo6 == [ifindex |-> 2,
             local |-> <<32, 1, 13, 184, 0, 0, 0, 0, 0, 0, 0, 0, 0, 0, 0, 1>>]

\* endpoints a reader of family fam can return (udp.rs 207-213, 257-263)
ReadEndpoints(fam) ==
    IF fam = "V4"
    THEN {read4_endpoint(host, Sender4, PktInfo4)}
    ELSE {read6_endpoint(host, Sender6, PktInfo6)}

(***************************************************************************)
(* Datagrams on the wire: sequences of bytes.                              *)
(***************************************************************************)
Datagrams ==
    { <<1, 0, 0, 0>>,        \* initiation
      <<2, 0, 0, 0, 9>>,     \* response
      <<3, 0, 0, 0>>,        \* cookie reply
      <<4, 0, 0, 0, 9>>,     \* transport
      <<1, 0, 0>>,           \* too short
      <<0, 0, 0, 1>>,        \* tag 1 in big-endian order
      <<1, 1, 0, 0>> }       \* tag 257

\* vec![0; n]
ZeroVec(n) == [i \in 1..n |-> 0]

\* Vec::truncate: no effect when n is not smaller than the length
Truncate(v, n) == IF n < Len(v) THEN SubSeq(v, 1, n) ELSE v

\* recvmsg into buf (udp.rs 176-213): at most Len(buf) bytes are stored
ReaderRead(buf, d) ==
    LET n == Min(Len(d), Len(buf))
    IN  [size |-> n,
         buf  |-> SubSeq(d, 1, n) \o SubSeq(buf, n + 1, Len(buf))]

\* the first four bytes read most significant byte first
BigEndian_read_u32(b) ==
    16777216 * b[1] + 65536 * b[2] + 256 * b[3] + b[4]

\* byteorder LittleEndian::read_u32 on the first four bytes
LittleEndian_read_u32(b) ==
    b[1] + 256 * b[2] + 65536 * b[3] + 16777216 * b[4]

\* std::mem::size_of::<u32>()
SIZE_OF_U32 == 4

(***************************************************************************)
(* wg.pending is an AtomicUsize: fetch_add and fetch_sub wrap modulo 2^64. *)
(* The model keeps, for a value v of the counter, the representative of v  *)
(* modulo 2^64 that lies in (-2^63, 2^63): 0 - 1 is kept as -1 and stands  *)
(* for usize::MAX.  usize_gt compares two such representatives the way     *)
(* the unsigned values compare.                                            *)
(***************************************************************************)
usize_gt(a, b) ==
    IF a < 0 THEN (b >= 0 \/ a > b) ELSE (b >= 0 /\ a > b)

\* workers.rs 136: fetch_add(1) returns the value held before the addition
fetch_add(p, n) == [old |-> p, new |-> p + n]

\* a subtraction that stops at 0 instead of wrapping
fetch_sub_saturating(p, n) ==
    [old |-> p, new |-> IF p >= 0 /\ p - n < 0 THEN 0 ELSE p - n]

\* workers.rs 175: fetch_sub(1)
fetch_sub(p, n) == [old |-> p, new |-> p - n]

\* workers.rs 30-33
Message(msg, src) == <<"Message", msg, src>>
New(pk) == <<"New", pk>>
NoJob == <<"NoJob">>

\* Option values
None == <<"None">>
Some(x) == <<"Some", x>>
IsSome(o) == o[1] = "Some"

(***************************************************************************)
(* padding (workers.rs 46-55)                                              *)
(***************************************************************************)
padding_min(a, b) ==
    LET m == IF a < b THEN 1 ELSE 0
    IN  a * m + (1 - m) * b

\* a padding that adds a whole multiple to a size that is one already
padding_NoReduce(size, mtu) ==
    LET pad == MESSAGE_PADDING_MULTIPLE
    IN  padding_min(mtu, size + (pad - (size % pad)))

padding(size, mtu) ==
    LET pad == MESSAGE_PADDING_MULTIPLE
    IN  padding_min(mtu, size + ((pad - (size % pad)) % pad))

(***************************************************************************)
(* udp_worker, one iteration after the datagram is in the buffer           *)
(* (workers.rs 120-158).                                                   *)
(***************************************************************************)
\* a de-multiplexer that forgets the response tag
IsHandshakeType_NoResponse(tag) ==
    tag \in {TYPE_COOKIE_REPLY, TYPE_INITIATION}

\* workers.rs 132: the tags that are queued for the handshake workers
IsHandshakeType(tag) ==
    tag \in {TYPE_COOKIE_REPLY, TYPE_INITIATION, TYPE_RESPONSE}

\* workers.rs 123-131 and 157: what the de-multiplexer does with msg
Demux(mtu_l, msg) ==
    IF mtu_l = 0 THEN "drop"
    ELSE IF Len(msg) < SIZE_OF_U32 THEN "drop"
    ELSE IF IsHandshakeType(LittleEndian_read_u32(msg)) THEN "handshake"
    ELSE IF LittleEndian_read_u32(msg) = TYPE_TRANSPORT THEN "transport"
    ELSE "drop"

\* workers.rs 139-144: the else-branch only logs
UpdateUnderLoad(lul, pending_old, t) ==
    IF usize_gt(pending_old, THRESHOLD_UNDER_LOAD) THEN t ELSE lul

(***************************************************************************)
(* handshake_worker, Message job (workers.rs 179-261).                     *)
(***************************************************************************)
\* workers.rs 188: the cookie-validation source handed to process
ProcessSource(src_validate) == None

\* a release loop that skips the first id
ReleaseCalls_SkipFirst(ids) ==
    [i \in 1..(Len(ids) - 1) |-> <<"release", ids[i + 1]>>]

\* workers.rs 252-254: one release per id that add_keypair returned
ReleaseCalls(ids) == [i \in 1..Len(ids) |-> <<"release", ids[i]>>]

\* workers.rs 245-255
KeypairCalls(pk, keypair, ids) ==
    IF IsSome(keypair)
    THEN <<  <<"timers_session_derived", pk>>,
             <<"add_keypair", pk, keypair[2], ids>> >> \o ReleaseCalls(ids)
    ELSE << >>

\* workers.rs 231-242
TimerCall(pk, resp_len) ==
    IF resp_len > 0
    THEN <<"sent_handshake_response", pk>>
    ELSE <<"timers_handshake_complete", pk>>

\* peer updates made without looking the public key up in the peer map
PeerCalls_NoLookup(msg, src, peerset, pk, resp_len, keypair, ids) ==
    IF IsSome(pk)
    THEN <<  <<"rx_bytes.fetch_add", pk[2], Len(msg)>>,
             <<"tx_bytes.fetch_add", pk[2], resp_len>>,
             <<"set_endpoint", pk[2], src>>,
             TimerCall(pk[2], resp_len) >>
         \o KeypairCalls(pk[2], keypair, ids)
    ELSE << >>

\* workers.rs 220-257
PeerCalls(msg, src, peerset, pk, resp_len, keypair, ids) ==
    IF IsSome(pk) /\ pk[2] \in peerset
    THEN <<  <<"rx_bytes.fetch_add", pk[2], Len(msg)>>,
             <<"tx_bytes.fetch_add", pk[2], resp_len>>,
             <<"set_endpoint", pk[2], src>>,
             TimerCall(pk[2], resp_len) >>
         \o KeypairCalls(pk[2], keypair, ids)
    ELSE << >>

\* udp.rs 279-283 and 332-337: write6 is unimplemented!() and panics
WritePanics(dst) == dst[1] = "V6"

\* workers.rs 200-217
WriteCalls(resp, src, writer, wres) ==
    IF IsSome(resp) /\ IsSome(writer)
    THEN << <<"write", resp[2], src,
              IF WritePanics(src) THEN "panic" ELSE wres>> >>
    ELSE << >>

\* workers.rs 181-260.  outcome is what process returned: <<"Err">> or
\* <<"Ok", pk, resp, keypair>>; wres is the result of the write, ids what
\* add_keypair returns.
MessageJob(msg, src, writer, peerset, outcome, wres, ids) ==
    LET src_validate == into_address(src)
        call  == << <<"process", msg, ProcessSource(src_validate)>> >>
    IN  IF outcome[1] = "Err"
        THEN [calls |-> call, panicked |-> FALSE]
        ELSE LET pk       == outcome[2]
                 resp     == outcome[3]
                 keypair  == outcome[4]
                 resp_len == IF IsSome(resp) THEN Len(resp[2]) ELSE 0
                 wr       == WriteCalls(resp, src, writer, wres)
             IN  IF wr # << >> /\ WritePanics(src)
                 THEN [calls |-> call \o wr, panicked |-> TRUE]
                 ELSE [calls |-> call \o wr
                                 \o PeerCalls(msg, src, peerset, pk, resp_len,
                                              keypair, ids),
                       panicked |-> FALSE]

(***************************************************************************)
(* handshake_worker, New job (workers.rs 262-277).                         *)
(***************************************************************************)
\* the initiation message that begin returns
InitiationMsg == <<1, 0, 0, 0, 5>>

\* a New job processed without looking the peer up
NewJob_NoLookup(pk, peerset, bres, sres) ==
    << <<"begin", pk, bres>> >>
    \o (IF bres = "Ok"
        THEN << <<"router.send", pk, InitiationMsg, sres>>,
                <<"sent_handshake_initiation", pk>> >>
        ELSE << >>)

\* workers.rs 263-274
NewJob(pk, peerset, bres, sres) ==
    IF pk \in peerset
    THEN << <<"begin", pk, bres>> >>
         \o (IF bres = "Ok"
             THEN << <<"router.send", pk, InitiationMsg, sres>>,
                     <<"sent_handshake_initiation", pk>> >>
             ELSE << >>)
    ELSE << >>

\* a flag that is cleared only when begin succeeded
HandshakeQueuedAfterNew_OnSuccess(hq, pk, peerset, bres) ==
    IF pk \in peerset /\ bres = "Ok" THEN [hq EXCEPT ![pk] = FALSE] ELSE hq

\* workers.rs 263 and 275
HandshakeQueuedAfterNew(hq, pk, peerset, bres) ==
    IF pk \in peerset THEN [hq EXCEPT ![pk] = FALSE] ELSE hq

(***************************************************************************)
(* tun_worker (workers.rs 57-101), on byte vectors.                        *)
(***************************************************************************)
\* TUN reader: an IP packet of n bytes placed at buf[offset..]
TunRead(buf, offset, n) ==
    [i \in 1..Len(buf) |-> IF i > offset /\ i <= offset + n THEN 1 ELSE buf[i]]

\* a TUN worker without the test for a device that is down
TunPacket_NoDownCheck(mtu_l, payload, sres) ==
    LET size   == mtu_l + SIZE_MESSAGE_PREFIX + 1
        msg    == TunRead(ZeroVec(size + CAPACITY_MESSAGE_POSTFIX),
                          SIZE_MESSAGE_PREFIX, payload)
        padded == padding(payload, mtu_l)
    IN  << <<"router.send", Truncate(msg, SIZE_MESSAGE_PREFIX + padded), sres>> >>

\* workers.rs 60-98: the calls made for a packet of `payload` bytes
TunPacket(mtu_l, payload, sres) ==
    LET size   == mtu_l + SIZE_MESSAGE_PREFIX + 1
        msg    == TunRead(ZeroVec(size + CAPACITY_MESSAGE_POSTFIX),
                          SIZE_MESSAGE_PREFIX, payload)
        padded == padding(payload, mtu_l)
    IN  IF mtu_l = 0
        THEN << >>
        ELSE << <<"router.send", Truncate(msg, SIZE_MESSAGE_PREFIX + padded), sres>> >>

\* packet lengths the TUN reader can return into the buffer of workers.rs 62
TunPayloads(mtu_l) == 0..(mtu_l + 1 + CAPACITY_MESSAGE_POSTFIX)

(***************************************************************************)
(* The read locks of handshake_worker (workers.rs 184, 221, 263, 268).     *)
(* wg.send.read() (line 203) is taken and given back inside the Message    *)
(* path and is left out.                                                   *)
(***************************************************************************)
\* the handshake worker threads whose locking is examined
NumLockThreads == 2
LockThreads == 1..NumLockThreads

\* the two locks: wg.handshake and wg.peers
Locks == {"handshake", "peers"}

\* a read-write lock either lets readers in while a writer waits, or holds
\* new readers back until the waiting writer has had its turn
RwLockKinds == {"readers_first", "writers_first"}

\* the kinds of job, and whether the job reaches its second lock: a Message
\* job when process returned a public key (line 219), a New job when the
\* peer is in the map (line 263)
LockJobs == {<<kind, second>> : kind \in {"Message", "New"}, second \in BOOLEAN}

\* the read locks a job takes, in the order it takes them: Message takes
\* wg.handshake.read() (184) and then wg.peers.read() (221); New takes
\* wg.peers.read() (263) and then wg.handshake.read() (268)
LockPlan(job) ==
    IF job[1] = "Message"
    THEN IF job[2] THEN <<"handshake", "peers">> ELSE <<"handshake">>
    ELSE IF job[2] THEN <<"peers", "handshake">> ELSE <<"peers">>

\* the locks in the sequence held
HeldSet(held) == {held[i] : i \in 1..Len(held)}

\* a read lock on l can be taken: no writer holds l, and no writer waits
\* for l where waiting writers come first
CanRead(kind, l, waiting, wheld) ==
    /\ l \notin wheld
    /\ (kind = "readers_first" \/ l \notin waiting)

(***************************************************************************)
(* State.                                                                  *)
(*   mtu, send, peers, handshake_queued, pending, queue : fields of wg     *)
(*   upc, umtu, ujob, last_under_load : udp_worker locals, per reader      *)
(*   hpc, hjob : handshake_worker position and the job it holds            *)
(*   tpc, tmtu : tun_worker position and the MTU it loaded                 *)
(*   now       : the clock read by Instant::now()                          *)
(*   accepted, dequeued, queued_new : history counters                     *)
(*   last      : the step taken last and the calls it made                 *)
(*   rx_closed : every sender of the handshake channel has been dropped    *)
(*   sockets   : the sockets of the kernel, indexed by file descriptor     *)
(*   owner, bind_readers, bind_writer : what LinuxUDP::bind returned       *)
(*   endpoint  : the endpoint a caller of the bind holds                   *)
(*   host      : the byte order of the host (declared above)               *)
(*   rwlock_kind : whether a waiting writer holds back new readers         *)
(*   lock_job, lock_held, lock_phase : per handshake thread, the job it    *)
(*               processes, the read locks it holds in the order it took   *)
(*               them, and whether it is taking or giving back locks       *)
(*   write_waiting, write_held : the locks a configuration writer waits    *)
(*               for, and holds, the write side of                         *)
(***************************************************************************)
VARIABLES mtu, send, peers, handshake_queued, pending, queue,
          upc, umtu, ujob, last_under_load,
          hpc, hjob, tpc, tmtu, now,
          accepted, dequeued, queued_new, last,
          rwlock_kind, lock_job, lock_held, lock_phase,
          write_waiting, write_held,
          rx_closed, sockets, owner, bind_readers, bind_writer, endpoint

\* the read-write locks of wg.handshake and wg.peers and their holders
lock_vars == <<rwlock_kind, lock_job, lock_held, lock_phase,
               write_waiting, write_held>>

\* the state of the bind and of the host
bind_vars == <<host, sockets, owner, bind_readers, bind_writer, endpoint>>

\* the state of the workers, without last
worker_vars == <<mtu, send, peers, handshake_queued, pending, queue,
                 upc, umtu, ujob, last_under_load,
                 hpc, hjob, tpc, tmtu, now,
                 accepted, dequeued, queued_new, rx_closed>>

vars == <<worker_vars, last, bind_vars, lock_vars>>

Writer == "LinuxUDPWriter"
Results == {"Ok", "Err"}
Replies == { <<2, 0, 0, 0, 8>> }
Keypairs == {"keypair"}
\* what add_keypair may return: the ids of the sessions it evicted
IdVecs == { << >>, <<5>>, <<5, 6>> }

ProcessOutcomes ==
    { <<"Err">> } \cup
    { <<"Ok", pk, resp, kp>> :
        pk \in {None} \cup {Some(k) : k \in PublicKeys},
        resp \in {None} \cup {Some(r) : r \in Replies},
        kp \in {None} \cup {Some(k) : k \in Keypairs} }

\* the workers have been started and nothing is bound yet
InitState ==
    /\ lock_job = [h \in LockThreads |-> NoJob]
    /\ lock_held = [h \in LockThreads |-> << >>]
    /\ lock_phase = [h \in LockThreads |-> "idle"]
    /\ write_waiting = {}
    /\ write_held = {}
    /\ rx_closed = FALSE
    /\ sockets = << >>
    /\ owner = None
    /\ bind_readers = << >>
    /\ bind_writer = None
    /\ endpoint = None
    /\ mtu \in MtuValues
    /\ send = Some(Writer)
    /\ peers = PublicKeys
    /\ handshake_queued = [pk \in PublicKeys |-> FALSE]
    /\ pending = 0
    /\ queue = << >>
    /\ upc = [w \in Readers |-> "read"]
    /\ umtu = [w \in Readers |-> mtu]
    /\ ujob = [w \in Readers |-> NoJob]
    /\ now = 0
    /\ last_under_load = [w \in Readers |-> 0 - TIME_HORIZON]
    /\ hpc = [h \in HandshakeWorkers |-> "recv"]
    /\ hjob = [h \in HandshakeWorkers |-> NoJob]
    /\ tpc = "read"
    /\ tmtu = mtu
    /\ accepted = 0
    /\ dequeued = 0
    /\ queued_new = 0
    /\ last = [op |-> "init", calls |-> << >>]

\* the workers are examined on a little-endian host
Init == host = "little" /\ rwlock_kind = "readers_first" /\ InitState

\* the bind and the endpoints are examined on hosts of both byte orders
InitBind == host \in Hosts /\ rwlock_kind = "readers_first" /\ InitState

\* the locks are examined with read-write locks of both kinds
InitLocks == host = "little" /\ rwlock_kind \in RwLockKinds /\ InitState

(***************************************************************************)
(* udp_worker (workers.rs 103-160).  A worker blocked in reader.read has   *)
(* already loaded the MTU for this iteration (line 108): umtu[w].          *)
(***************************************************************************)
\* workers.rs 113-117: the reader fails and the worker returns
udp_worker_read_err(w) ==
    /\ upc[w] = "read"
    /\ upc' = [upc EXCEPT ![w] = "done"]
    /\ last' = [op |-> "udp_read_err", who |-> w, calls |-> << >>]
    /\ UNCHANGED <<mtu, send, peers, handshake_queued, pending, queue,
                   umtu, ujob, last_under_load, hpc, hjob, tpc, tmtu, now,
                   accepted, dequeued, queued_new>>
    /\ UNCHANGED <<rx_closed, bind_vars, lock_vars>>

\* workers.rs 108-158: a datagram d arrives from src; rres is the result of
\* router.recv, if it is called
udp_worker_read(w, d, src, rres) ==
    /\ upc[w] = "read"
    /\   LET r     == ReaderRead(ZeroVec(umtu[w] + MAX_HANDSHAKE_MSG_SIZE), d)
             msg   == Truncate(r.buf, r.size)
             route == Demux(umtu[w], msg)
             fa    == fetch_add(pending, 1)
         IN  /\ IF route = "handshake"
                THEN /\ pending' = fa.new
                     /\ last_under_load' =
                          [last_under_load EXCEPT
                             ![w] = UpdateUnderLoad(@, fa.old, now)]
                     /\ ujob' = [ujob EXCEPT ![w] = Message(msg, src)]
                     /\ upc' = [upc EXCEPT ![w] = "send"]
                     /\ accepted' = accepted + 1
                     /\ UNCHANGED umtu
                ELSE /\ umtu' = [umtu EXCEPT ![w] = mtu]
                     /\ UNCHANGED <<pending, last_under_load, ujob, upc, accepted>>
             /\ last' = [op |-> "udp_read", who |-> w, mtu |-> umtu[w],
                         d |-> d, src |-> src,
                         calls |-> IF route = "transport"
                                   THEN << <<"router.recv", src, msg, rres>> >>
                                   ELSE << >>]
    /\ UNCHANGED <<mtu, send, peers, handshake_queued, queue,
                   hpc, hjob, tpc, tmtu, now, dequeued, queued_new>>
    /\ UNCHANGED <<rx_closed, bind_vars, lock_vars>>

\* workers.rs 147: send on the bounded channel, which blocks while it is full
udp_worker_send(w) ==
    /\ upc[w] = "send"
    /\ Len(queue) < MaxQueue
    /\ queue' = Append(queue, ujob[w])
    /\ ujob' = [ujob EXCEPT ![w] = NoJob]
    /\ upc' = [upc EXCEPT ![w] = "read"]
    /\ umtu' = [umtu EXCEPT ![w] = mtu]
    /\ last' = [op |-> "udp_send", who |-> w, calls |-> << >>]
    /\ UNCHANGED <<mtu, send, peers, handshake_queued, pending,
                   last_under_load, hpc, hjob, tpc, tmtu, now,
                   accepted, dequeued, queued_new>>
    /\ UNCHANGED <<rx_closed, bind_vars, lock_vars>>

(***************************************************************************)
(* handshake_worker (workers.rs 162-280)                                   *)
(***************************************************************************)
\* workers.rs 172: the next job is taken from the channel
handshake_worker_recv(h) ==
    /\ hpc[h] = "recv"
    /\ queue # << >>
    /\ hjob' = [hjob EXCEPT ![h] = Head(queue)]
    /\ queue' = Tail(queue)
    /\ hpc' = [hpc EXCEPT ![h] = "job"]
    /\ dequeued' = dequeued + 1
    /\ last' = [op |-> "hs_recv", who |-> h, calls |-> << >>]
    /\ UNCHANGED <<mtu, send, peers, handshake_queued, pending,
                   upc, umtu, ujob, last_under_load, tpc, tmtu, now,
                   accepted, queued_new>>
    /\ UNCHANGED <<rx_closed, bind_vars, lock_vars>>

\* workers.rs 175-261: pending is decremented and a Message job is processed
handshake_worker_message(h, outcome, wres, ids) ==
    /\ hpc[h] = "job"
    /\ hjob[h][1] = "Message"
    /\ pending' = fetch_sub(pending, 1).new
    /\   LET r == MessageJob(hjob[h][2], hjob[h][3], send, peers,
                             outcome, wres, ids)
         IN  /\ hpc' = [hpc EXCEPT ![h] = IF r.panicked THEN "panicked" ELSE "recv"]
             /\ last' = [op |-> "hs_message", who |-> h, job |-> hjob[h],
                         outcome |-> outcome, calls |-> r.calls]
    /\ hjob' = [hjob EXCEPT ![h] = NoJob]
    /\ UNCHANGED <<mtu, send, peers, handshake_queued, queue,
                   upc, umtu, ujob, last_under_load, tpc, tmtu, now,
                   accepted, dequeued, queued_new>>
    /\ UNCHANGED <<rx_closed, bind_vars, lock_vars>>

\* workers.rs 175-178 and 262-277: pending is decremented and a New job is
\* processed
handshake_worker_new(h, bres, sres) ==
    /\ hpc[h] = "job"
    /\ hjob[h][1] = "New"
    /\ pending' = fetch_sub(pending, 1).new
    /\ handshake_queued' =
         HandshakeQueuedAfterNew(handshake_queued, hjob[h][2], peers, bres)
    /\ last' = [op |-> "hs_new", who |-> h, job |-> hjob[h],
                calls |-> NewJob(hjob[h][2], peers, bres, sres)]
    /\ hpc' = [hpc EXCEPT ![h] = "recv"]
    /\ hjob' = [hjob EXCEPT ![h] = NoJob]
    /\ UNCHANGED <<mtu, send, peers, queue,
                   upc, umtu, ujob, last_under_load, tpc, tmtu, now,
                   accepted, dequeued, queued_new>>
    /\ UNCHANGED <<rx_closed, bind_vars, lock_vars>>

\* workers.rs 172 and 279: the channel is closed and drained, the iteration
\* over rx ends and the worker returns
handshake_worker_closed(h) ==
    /\ hpc[h] = "recv"
    /\ queue = << >>
    /\ rx_closed
    /\ hpc' = [hpc EXCEPT ![h] = "done"]
    /\ last' = [op |-> "hs_closed", who |-> h, calls |-> << >>]
    /\ UNCHANGED <<mtu, send, peers, handshake_queued, pending, queue,
                   upc, umtu, ujob, last_under_load, hjob, tpc, tmtu, now,
                   accepted, dequeued, queued_new>>
    /\ UNCHANGED <<rx_closed, bind_vars, lock_vars>>

\* the step of the locks taken last
LockStep(op, h) == [op |-> op, who |-> h, calls |-> << >>]

\* workers.rs 172-178: thread h starts on a job
handshake_lock_job(h, job) ==
    /\ lock_phase[h] = "idle"
    /\ lock_job' = [lock_job EXCEPT ![h] = job]
    /\ lock_phase' = [lock_phase EXCEPT ![h] = "take"]
    /\ last' = LockStep("lock_job", h)
    /\ UNCHANGED <<rwlock_kind, lock_held, write_waiting, write_held>>
    /\ UNCHANGED <<worker_vars, bind_vars>>

\* workers.rs 184, 221, 263, 268: thread h takes the next read lock of its job
handshake_lock_read(h) ==
    /\ lock_phase[h] = "take"
    /\ Len(lock_held[h]) < Len(LockPlan(lock_job[h]))
    /\   LET l == LockPlan(lock_job[h])[Len(lock_held[h]) + 1]
         IN  /\ CanRead(rwlock_kind, l, write_waiting, write_held)
             /\ lock_held' = [lock_held EXCEPT ![h] = Append(@, l)]
    /\ last' = LockStep("lock_read", h)
    /\ UNCHANGED <<rwlock_kind, lock_job, lock_phase, write_waiting, write_held>>
    /\ UNCHANGED <<worker_vars, bind_vars>>

\* workers.rs 257-261, 275-277: the guards go out of scope, the one taken
\* last first; with the last one given back the job is done
handshake_lock_unlock(h) ==
    /\ lock_phase[h] \in {"take", "give"}
    /\ lock_phase[h] = "take" => Len(lock_held[h]) = Len(LockPlan(lock_job[h]))
    /\ lock_held[h] # << >>
    /\ lock_held' = [lock_held EXCEPT ![h] = SubSeq(@, 1, Len(@) - 1)]
    /\ lock_phase' = [lock_phase EXCEPT
                        ![h] = IF Len(lock_held[h]) = 1 THEN "idle" ELSE "give"]
    /\ lock_job' = [lock_job EXCEPT
                      ![h] = IF Len(lock_held[h]) = 1 THEN NoJob ELSE @]
    /\ last' = LockStep("lock_unlock", h)
    /\ UNCHANGED <<rwlock_kind, write_waiting, write_held>>
    /\ UNCHANGED <<worker_vars, bind_vars>>

(***************************************************************************)
(* tun_worker (workers.rs 57-101).  A worker blocked in reader.read has    *)
(* already loaded the MTU for this iteration (line 60): tmtu.              *)
(***************************************************************************)
\* workers.rs 65-71: the TUN reader fails and the worker leaves its loop
tun_worker_read_err ==
    /\ tpc = "read"
    /\ tpc' = "done"
    /\ last' = [op |-> "tun_read_err", calls |-> << >>]
    /\ UNCHANGED <<mtu, send, peers, handshake_queued, pending, queue,
                   upc, umtu, ujob, last_under_load, hpc, hjob, tmtu, now,
                   accepted, dequeued, queued_new>>
    /\ UNCHANGED <<rx_closed, bind_vars, lock_vars>>

\* workers.rs 60-99: an IP packet of `payload` bytes is read
tun_worker(payload, sres) ==
    /\ tpc = "read"
    /\ payload \in TunPayloads(tmtu)
    /\ last' = [op |-> "tun", mtu |-> tmtu, payload |-> payload,
                calls |-> TunPacket(tmtu, payload, sres)]
    /\ tmtu' = mtu
    /\ UNCHANGED <<mtu, send, peers, handshake_queued, pending, queue,
                   upc, umtu, ujob, last_under_load, hpc, hjob, tpc, now,
                   accepted, dequeued, queued_new>>
    /\ UNCHANGED <<rx_closed, bind_vars, lock_vars>>

(***************************************************************************)
(* The Linux bind (udp.rs 376-579).  A socket of the kernel is a record    *)
(*   [family, port, mark, open, closes]                                    *)
(* port being the port it is bound to (0: not bound) and closes the number *)
(* of times close was called on its descriptor.  The descriptor of a       *)
(* socket is its index in sockets; -1 is no descriptor.                    *)
(***************************************************************************)
NewSocket(fam) ==
    [family |-> fam, port |-> 0, mark |-> 0, open |-> TRUE, closes |-> 0]

\* a port as the two bytes of sin_port in network byte order, and back
PortBytes(p) == <<p \div 256, p % 256>>
PortOfBytes(b) == b[1] * 256 + b[2]

\* the address family constants of libc
AF(fam) == IF fam = "V6" THEN 10 ELSE 2

\* the first four bytes of a sockaddr_in / sockaddr_in6 in memory: the
\* family in host byte order, then the port in network byte order
SockaddrImage(h, fam, p) == to_ne_bytes(h, <<0, AF(fam)>>) \o PortBytes(p)

\* getsockname(2): the kernel copies at most socklen bytes of the address of
\* the socket into the buffer of the caller
getsockname(buf, socklen, address) ==
    LET n == Min(socklen, Len(address))
    IN  SubSeq(address, 1, n) \o SubSeq(buf, n + 1, Len(buf))

\* udp.rs 430 and 505: let mut socklen: libc::socklen_t = 0
SOCKLEN == 0

\* the steps of bind6 / bind4 that can fail
BindFailures == {"none", "socket", "setsockopt", "bind", "getsockname"}

\* udp.rs 387-452 (bind6) and 464-528 (bind4), which differ in the family
\* and the socket options only.  fail is the step that fails, eph the port
\* the kernel chooses when asked for port 0.
bind_family(h, fam, sk, port, fail, eph) ==
    LET fd       == Len(sk) + 1
        created  == Append(sk, NewSocket(fam))
        sockaddr == SockaddrImage(h, fam, port)
        bound    == [created EXCEPT ![fd].port = IF port = 0 THEN eph ELSE port]
        named    == getsockname(sockaddr, SOCKLEN,
                                SockaddrImage(h, fam, bound[fd].port))
        new_port == PortOfBytes(SubSeq(named, 3, 4))
    IN  IF fail = "socket"
        THEN [res |-> <<"Err", fam, fail>>, sockets |-> sk]
        ELSE IF fail \in {"setsockopt", "bind"}
        THEN [res |-> <<"Err", fam, fail>>, sockets |-> created]
        ELSE IF fail = "getsockname"
        THEN [res |-> <<"Err", fam, fail>>, sockets |-> bound]
        ELSE [res |-> <<"Ok", new_port, fd>>, sockets |-> bound]

bind6(h, sk, port, fail, eph) == bind_family(h, "V6", sk, port, fail, eph)

bind4(h, sk, port, fail, eph) == bind_family(h, "V4", sk, port, fail, eph)

IsOk(r) == r[1] = "Ok"

\* Result::ok().map(|(_, fd)| fd)
OkFd(r) == IF IsOk(r) THEN Some(r[3]) ELSE None

\* Option::unwrap_or
unwrap_or(o, d) == IF IsSome(o) THEN o[2] ELSE d

\* udp.rs 534-578.  The result is the value returned, the sockets of the
\* kernel afterwards, and what the two family binds were called with and
\* returned.
LinuxUDP_bind(h, sk, port, fail6, eph6, fail4, eph4) ==
    LET b6    == bind6(h, sk, port, fail6, eph6)
        port6 == IF IsOk(b6.res) THEN b6.res[2] ELSE port
        b4    == bind4(h, b6.sockets, port6, fail4, eph4)
        port4 == IF IsOk(b4.res) THEN b4.res[2] ELSE port6
        sock6 == OkFd(b6.res)
        sock4 == OkFd(b4.res)
        readers ==
            (IF IsSome(sock6) THEN << <<"V6", sock6[2]>> >> ELSE << >>)
            \o (IF IsSome(sock4) THEN << <<"V4", sock4[2]>> >> ELSE << >>)
    IN  [res |->
            IF ~IsOk(b4.res) /\ ~IsOk(b6.res)
            THEN b6.res
            ELSE <<"Ok", readers,
                   [sock4 |-> unwrap_or(sock4, 0 - 1),
                    sock6 |-> unwrap_or(sock6, 0 - 1)],
                   [port |-> port4, sock6 |-> sock6, sock4 |-> sock4]>>,
         sockets |-> b4.sockets,
         bind6 |-> b6.res, bind4 |-> b4.res, bind4_port |-> port6]

\* udp.rs 347-358.  res6 and res4 are the results of setsockopt on the two
\* sockets, where it is called.
set_fwmark(sk, own, value, res6, res4) ==
    LET v   == unwrap_or(value, 0)
        sk6 == IF IsSome(own.sock6) /\ res6 = "Ok"
               THEN [sk EXCEPT ![own.sock6[2]].mark = v] ELSE sk
        sk4 == IF IsSome(own.sock4) /\ res4 = "Ok"
               THEN [sk6 EXCEPT ![own.sock4[2]].mark = v] ELSE sk6
    IN  IF IsSome(own.sock6) /\ res6 = "Err"
        THEN [res |-> "Err", sockets |-> sk]
        ELSE IF IsSome(own.sock4) /\ res4 = "Err"
        THEN [res |-> "Err", sockets |-> sk6]
        ELSE [res |-> "Ok", sockets |-> sk4]

\* close(2) on the descriptor of an Option<RawFd>
CloseFd(sk, fd) ==
    IF IsSome(fd)
    THEN [sk EXCEPT ![fd[2]].open = FALSE, ![fd[2]].closes = @ + 1]
    ELSE sk

\* a drop that closes the IPv4 socket twice and the IPv6 socket never
LinuxOwner_drop_Sock4Twice(sk, own) ==
    CloseFd(CloseFd(sk, own.sock4), own.sock4)

\* udp.rs 361-367
LinuxOwner_drop(sk, own) == CloseFd(CloseFd(sk, own.sock4), own.sock6)

(***************************************************************************)
(* The writer (udp.rs 278-338).                                            *)
(***************************************************************************)
\* the size of libc::cmsghdr and of ControlHeaderV4 on Linux x86-64
SIZEOF_CMSGHDR == 16
SIZEOF_CONTROL_V4 == 28

\* udp.rs 311: msg_controllen
MSG_CONTROLLEN == 1

\* sendmsg(2): the control messages the kernel takes from a control buffer
\* of controllen bytes that starts with a message of cmsg_len bytes.  With
\* fewer bytes than a header there is no message; a message longer than the
\* buffer is an error.
sendmsg_control(cmsg_len, controllen, body) ==
    IF controllen < SIZEOF_CMSGHDR THEN << >>
    ELSE IF cmsg_len > controllen THEN <<"EINVAL">>
    ELSE << body >>

\* the socket a descriptor names, if it names an open one
Live(sk, fd) == fd \in 1..Len(sk) /\ sk[fd].open

\* udp.rs 285-326.  sres is the result of the kernel for a datagram it can
\* send.  The result is what write4 returns and the datagrams handed to the
\* network: <<fd, destination address, destination port, control, payload>>.
write4(h, sk, fd, buf, dst, sres) ==
    LET control == sendmsg_control(SIZEOF_CONTROL_V4, MSG_CONTROLLEN,
                       [ifindex |-> dst[3].ipi_ifindex,
                        local   |-> to_ne_bytes(h, dst[3].ipi_spec_dst)])
    IN  IF buf = << >>
        THEN [res |-> "panic", sent |-> << >>]
        ELSE IF ~Live(sk, fd) \/ control = <<"EINVAL">> \/ sres = "Err"
        THEN [res |-> "Err", sent |-> << >>]
        ELSE [res |-> "Ok",
              sent |-> << <<fd, to_ne_bytes(h, dst[2].s_addr),
                            to_ne_bytes(h, dst[2].sin_port),
                            control, buf>> >>]

\* udp.rs 279-283: unimplemented!()
write6(h, sk, fd, buf, dst, sres) == [res |-> "panic", sent |-> << >>]

\* udp.rs 332-337
LinuxUDPWriter_write(h, sk, writer, buf, dst, sres) ==
    IF dst[1] = "V4"
    THEN write4(h, sk, writer.sock4, buf, dst, sres)
    ELSE write6(h, sk, writer.sock6, buf, dst, sres)

(***************************************************************************)
(* Operations on the bind and on endpoints.  endpoint is None or           *)
(* Some([e, received]), received telling whether e was returned by a       *)
(* reader and not changed since, and for which sender and packet info.     *)
(***************************************************************************)
BindPorts == {0, 51820}
EphemeralPorts == {40000, 40001}
SocketAddrs ==
    { <<"V4", <<192, 0, 2, 7>>, <<202, 108>>>>,
      <<"V6", <<32, 1, 13, 184, 0, 0, 0, 0, 0, 0, 0, 0, 0, 0, 0, 7>>,
        <<202, 108>>, 1, 2>> }
Payloads == { << >>, <<4, 0, 0, 0, 9>> }
Marks == {None, Some(51)}

\* LinuxUDP::bind(port)
bind(port, fail6, eph6, fail4, eph4) ==
    /\ owner = None
    /\ sockets = << >>
    /\   LET b == LinuxUDP_bind(host, sockets, port, fail6, eph6, fail4, eph4)
         IN  /\ sockets' = b.sockets
             /\ owner' = IF IsOk(b.res) THEN Some(b.res[4]) ELSE None
             /\ bind_readers' = IF IsOk(b.res) THEN b.res[2] ELSE << >>
             /\ bind_writer' = IF IsOk(b.res) THEN Some(b.res[3]) ELSE None
             /\ last' = [op |-> "bind", port |-> port, res |-> b.res,
                         bind6 |-> b.bind6, bind4 |-> b.bind4,
                         bind4_port |-> b.bind4_port, calls |-> << >>]
    /\ UNCHANGED <<lock_vars, worker_vars, host, endpoint>>

\* owner.set_fwmark(value)
owner_set_fwmark(value, res6, res4) ==
    /\ IsSome(owner)
    /\   LET r == set_fwmark(sockets, owner[2], value, res6, res4)
         IN  /\ sockets' = r.sockets
             /\ last' = [op |-> "set_fwmark", value |-> value, res |-> r.res,
                         calls |-> << >>]
    /\ UNCHANGED <<lock_vars, worker_vars, host, owner, bind_readers, bind_writer, endpoint>>

\* the owner is dropped
owner_drop ==
    /\ IsSome(owner)
    /\ sockets' = LinuxOwner_drop(sockets, owner[2])
    /\ owner' = <<"Dropped", owner[2]>>
    /\ last' = [op |-> "drop", calls |-> << >>]
    /\ UNCHANGED <<lock_vars, worker_vars, host, bind_readers, bind_writer, endpoint>>

\* LinuxEndpoint::from_address(addr)
endpoint_from_address(addr) ==
    /\ endpoint' = Some([e |-> from_address(host, addr), received |-> None])
    /\ last' = [op |-> "from_address", addr |-> addr, calls |-> << >>]
    /\ UNCHANGED <<lock_vars, worker_vars, host, sockets, owner, bind_readers, bind_writer>>

\* endpoint.clear_src()
endpoint_clear_src ==
    /\ IsSome(endpoint)
    /\ endpoint' = Some([e |-> clear_src(endpoint[2].e), received |-> None])
    /\ last' = [op |-> "clear_src", before |-> endpoint[2].e, calls |-> << >>]
    /\ UNCHANGED <<lock_vars, worker_vars, host, sockets, owner, bind_readers, bind_writer>>

\* reader.read on the i-th reader of the bind: a datagram has arrived on its
\* socket (udp.rs 270-275)
reader_read(i) ==
    /\ i \in 1..Len(bind_readers)
    /\ Live(sockets, bind_readers[i][2])
    /\   LET fam     == bind_readers[i][1]
             sender  == IF fam = "V4" THEN Sender4 ELSE Sender6
             pktinfo == IF fam = "V4" THEN PktInfo4 ELSE PktInfo6
             e       == IF fam = "V4"
                        THEN read4_endpoint(host, sender, pktinfo)
                        ELSE read6_endpoint(host, sender, pktinfo)
         IN  /\ endpoint' = Some([e |-> e,
                                  received |-> Some([sender |-> sender,
                                                     pktinfo |-> pktinfo])])
             /\ last' = [op |-> "read", reader |-> bind_readers[i],
                         calls |-> << >>]
    /\ UNCHANGED <<lock_vars, worker_vars, host, sockets, owner, bind_readers, bind_writer>>

\* writer.write(buf, endpoint)
writer_write(buf, sres) ==
    /\ IsSome(bind_writer)
    /\ IsSome(endpoint)
    /\   LET r == LinuxUDPWriter_write(host, sockets, bind_writer[2], buf,
                                       endpoint[2].e, sres)
         IN  last' = [op |-> "write", buf |-> buf, dst |-> endpoint[2].e,
                      res |-> r.res, calls |-> r.sent]
    /\ UNCHANGED <<lock_vars, worker_vars, bind_vars>>

(***************************************************************************)
(* padding (workers.rs 46-55) called on its own.                           *)
(***************************************************************************)
\* the sizes and MTUs padding is called with: every size up to every small
\* MTU, and the sizes around the MTU of an Ethernet link
PaddingInputs ==
    { <<size, m>> : size \in 0..MaxPaddingMtu, m \in 0..MaxPaddingMtu }
    \cup { <<0, 1500>>, <<1, 1500>>, <<1499, 1500>>, <<1500, 1500>> }

\* workers.rs 80: padded = padding(size, mtu), and padding applied to padded
padding_call(size, m) ==
    /\ size <= m
    /\ last' = [op |-> "padding", size |-> size, mtu |-> m,
                padded |-> padding(size, m),
                again |-> padding(padding(size, m), m),
                calls |-> << >>]
    /\ UNCHANGED <<lock_vars, worker_vars, bind_vars>>

(***************************************************************************)
(* The rest of the device, which is outside the two files: configuration   *)
(* changes, the trigger that queues a New job, and the passing of time.    *)
(***************************************************************************)
Env == [op |-> "env", calls |-> << >>]

\* the MTU changes (0 = device down)
set_mtu(m) ==
    /\ m # mtu
    /\ mtu' = m
    /\ last' = Env
    /\ UNCHANGED <<send, peers, handshake_queued, pending, queue,
                   upc, umtu, ujob, last_under_load, hpc, hjob, tpc, tmtu, now,
                   accepted, dequeued, queued_new>>
    /\ UNCHANGED <<rx_closed, bind_vars, lock_vars>>

\* the bind is taken away or replaced: the writer slot changes
set_writer(w) ==
    /\ w # send
    /\ send' = w
    /\ last' = Env
    /\ UNCHANGED <<mtu, peers, handshake_queued, pending, queue,
                   upc, umtu, ujob, last_under_load, hpc, hjob, tpc, tmtu, now,
                   accepted, dequeued, queued_new>>
    /\ UNCHANGED <<rx_closed, bind_vars, lock_vars>>

\* a peer is removed from the peer map
remove_peer(pk) ==
    /\ pk \in peers
    /\ peers' = peers \ {pk}
    /\ last' = Env
    /\ UNCHANGED <<mtu, send, handshake_queued, pending, queue,
                   upc, umtu, ujob, last_under_load, hpc, hjob, tpc, tmtu, now,
                   accepted, dequeued, queued_new>>
    /\ UNCHANGED <<rx_closed, bind_vars, lock_vars>>

\* a handshake is requested for a peer: unless one is queued already, the
\* flag is set and New(pk) is queued
queue_handshake(pk) ==
    /\ pk \in peers
    /\ ~handshake_queued[pk]
    /\ Len(queue) < MaxQueue
    /\ handshake_queued' = [handshake_queued EXCEPT ![pk] = TRUE]
    /\ queue' = Append(queue, New(pk))
    /\ queued_new' = queued_new + 1
    /\ last' = Env
    /\ UNCHANGED <<mtu, send, peers, pending,
                   upc, umtu, ujob, last_under_load, hpc, hjob, tpc, tmtu, now,
                   accepted, dequeued>>
    /\ UNCHANGED <<rx_closed, bind_vars, lock_vars>>

\* time passes
tick ==
    /\ now < MaxNow
    /\ now' = now + 1
    /\ last' = Env
    /\ UNCHANGED <<mtu, send, peers, handshake_queued, pending, queue,
                   upc, umtu, ujob, last_under_load, hpc, hjob, tpc, tmtu,
                   accepted, dequeued, queued_new>>
    /\ UNCHANGED <<rx_closed, bind_vars, lock_vars>>

\* the device is torn down: the readers have returned and the sending side
\* of the handshake channel is dropped
close_channel ==
    /\ ~rx_closed
    /\ \A w \in Readers : upc[w] = "done"
    /\ rx_closed' = TRUE
    /\ last' = Env
    /\ UNCHANGED <<mtu, send, peers, handshake_queued, pending, queue,
                   upc, umtu, ujob, last_under_load, hpc, hjob, tpc, tmtu, now,
                   accepted, dequeued, queued_new>>
    /\ UNCHANGED <<bind_vars, lock_vars>>

\* a configuration change asks for the write side of lock l and waits
config_write_request(l) ==
    /\ l \notin write_waiting
    /\ l \notin write_held
    /\ write_waiting' = write_waiting \cup {l}
    /\ last' = Env
    /\ UNCHANGED <<rwlock_kind, lock_job, lock_held, lock_phase, write_held>>
    /\ UNCHANGED <<worker_vars, bind_vars>>

\* the waiting writer gets lock l once no reader holds it
config_write_lock(l) ==
    /\ l \in write_waiting
    /\ \A h \in LockThreads : l \notin HeldSet(lock_held[h])
    /\ write_waiting' = write_waiting \ {l}
    /\ write_held' = write_held \cup {l}
    /\ last' = Env
    /\ UNCHANGED <<rwlock_kind, lock_job, lock_held, lock_phase>>
    /\ UNCHANGED <<worker_vars, bind_vars>>

\* the configuration change is made and the write side of l is given back
config_write_unlock(l) ==
    /\ l \in write_held
    /\ write_held' = write_held \ {l}
    /\ last' = Env
    /\ UNCHANGED <<rwlock_kind, lock_job, lock_held, lock_phase, write_waiting>>
    /\ UNCHANGED <<worker_vars, bind_vars>>

(***************************************************************************)
(* Specifications.  Every one runs the same actions; they differ in the    *)
(* inputs offered to them, so that each part of the pipeline can be        *)
(* explored with all of its inputs.                                        *)
(*   SpecTun        the TUN worker with every packet length                *)
(*   SpecDemux      the UDP workers with every kind of datagram, a         *)
(*                  handshake worker draining the channel                  *)
(*   SpecLoad       the UDP workers under a stream of initiations, the     *)
(*                  handshake workers draining it, and time passing        *)
(*   SpecHandshake  the handshake workers with every result of the         *)
(*                  handshake engine, the router and the writer, fed by    *)
(*                  the UDP workers and by queued New jobs, with peers     *)
(*                  removed and the writer slot changing                   *)
(*   SpecTermination every worker with the errors of its input source and  *)
(*                  of the calls it makes, and the handshake channel       *)
(*                  closed once the readers have returned                  *)
(*   SpecBind       the Linux bind: bind, set_fwmark, drop, the readers,   *)
(*                  the writer and the endpoint conversions                *)
(*   SpecPadding    padding on every size and MTU                          *)
(*   SpecProgress   the UDP and handshake workers scheduled fairly, every  *)
(*                  call returning, with a bounded number of arrivals      *)
(*   SpecLocks      the read locks of the handshake workers, with          *)
(*                  configuration writers asking for the write sides       *)
(***************************************************************************)
\* the datagrams of D that can still arrive when n of the at most max
\* handshake datagrams of a run have arrived
Offered(D, n, max) ==
    IF n < max
    THEN D
    ELSE {d \in D : Len(d) < 4 \/ d[1] \notin {1, 2, 3} \/ d[2] # 0}

NextTun ==
    \/ tun_worker_read_err
    \/ \E payload \in TunPayloads(tmtu), sres \in Results :
         tun_worker(payload, sres)
    \/ \E m \in MtuValues : set_mtu(m)

SpecTun == Init /\ [][NextTun]_vars

\* the results router.recv can give for d: one value where it is not called
RecvResults(d) == IF Len(d) >= 4 /\ d[1] = 4 THEN Results ELSE {"Ok"}

NextDemux ==
    \/ \E w \in Readers : udp_worker_read_err(w)
    \/ \E w \in Readers, d \in Offered(Datagrams, accepted, MaxDemux) :
         \E src \in ReadEndpoints(w), rres \in RecvResults(d) :
           udp_worker_read(w, d, src, rres)
    \/ \E w \in Readers : udp_worker_send(w)
    \/ handshake_worker_recv(1)
    \/ handshake_worker_message(1, <<"Err">>, "Ok", << >>)
    \/ \E m \in MtuValues : set_mtu(m)

SpecDemux == Init /\ [][NextDemux]_vars

LoadDatagrams == { <<1, 0, 0, 0>> }

NextLoad ==
    \/ \E w \in Readers, d \in Offered(LoadDatagrams, accepted, MaxLoad) :
         \E src \in ReadEndpoints(w) : udp_worker_read(w, d, src, "Ok")
    \/ \E w \in Readers : udp_worker_send(w)
    \/ \E h \in HandshakeWorkers : handshake_worker_recv(h)
    \/ \E h \in HandshakeWorkers :
         handshake_worker_message(h, <<"Err">>, "Ok", << >>)
    \/ tick

SpecLoad == Init /\ [][NextLoad]_vars

\* the results the writer can give, and the ids add_keypair can return, when
\* process returned outcome: one value where the call cannot be made
WriteResults(outcome) ==
    IF outcome[1] = "Ok" /\ IsSome(outcome[3]) THEN Results ELSE {"Ok"}

ReturnedIds(outcome) ==
    IF outcome[1] = "Ok" /\ IsSome(outcome[4]) THEN IdVecs ELSE { << >> }

NextHandshake ==
    \/ \E w \in Readers, d \in Offered(LoadDatagrams, accepted + queued_new, MaxJobs) :
         \E src \in ReadEndpoints(w) : udp_worker_read(w, d, src, "Ok")
    \/ \E w \in Readers : udp_worker_send(w)
    \/ \E h \in HandshakeWorkers : handshake_worker_recv(h)
    \/ \E h \in HandshakeWorkers, outcome \in ProcessOutcomes :
         \E wres \in WriteResults(outcome), ids \in ReturnedIds(outcome) :
           handshake_worker_message(h, outcome, wres, ids)
    \/ \E h \in HandshakeWorkers, bres \in Results, sres \in Results :
         handshake_worker_new(h, bres, sres)
    \/ tun_worker(1, "Ok")
    \/ \E w \in {None, Some(Writer)} : set_writer(w)
    \/ \E pk \in PublicKeys : remove_peer(pk)
    \/ \E pk \in PublicKeys :
         accepted + queued_new < MaxJobs /\ queue_handshake(pk)

SpecHandshake == Init /\ [][NextHandshake]_vars

\* the datagrams offered where termination is examined: an initiation and a
\* transport message
TerminationDatagrams == { <<1, 0, 0, 0>>, <<4, 0, 0, 0>> }

\* the results of process offered where termination is examined: an error,
\* a reply for a peer, and a message without peer and reply
TerminationOutcomes ==
    { <<"Err">>,
      <<"Ok", Some(1), Some(<<2, 0, 0, 0, 8>>), None>>,
      <<"Ok", None, None, None>> }

NextTermination ==
    \/ \E w \in Readers : udp_worker_read_err(w)
    \/ \E w \in Readers,
          d \in Offered(TerminationDatagrams, accepted + queued_new, MaxJobs) :
         \E src \in ReadEndpoints(w), rres \in RecvResults(d) :
           udp_worker_read(w, d, src, rres)
    \/ \E w \in Readers : udp_worker_send(w)
    \/ \E h \in HandshakeWorkers : handshake_worker_recv(h)
    \/ \E h \in HandshakeWorkers, outcome \in TerminationOutcomes :
         \E wres \in WriteResults(outcome) :
           handshake_worker_message(h, outcome, wres, << >>)
    \/ \E h \in HandshakeWorkers, bres \in Results, sres \in Results :
         handshake_worker_new(h, bres, sres)
    \/ \E h \in HandshakeWorkers : handshake_worker_closed(h)
    \/ tun_worker_read_err
    \/ \E sres \in Results : tun_worker(1, sres)
    \/ \E pk \in PublicKeys :
         /\ ~rx_closed
         /\ accepted + queued_new < MaxJobs
         /\ queue_handshake(pk)
    \/ close_channel

SpecTermination == Init /\ [][NextTermination]_vars

\* the call of writer.write that the Message job of thread h makes for
\* outcome returns
WriteReturns(h, outcome) ==
    ~MessageJob(hjob[h][2], hjob[h][3], send, peers, outcome, "Ok", << >>).panicked

\* the steps of the handshake workers in which every call returns
HandshakeWorkerRuns ==
    \/ \E h \in HandshakeWorkers : handshake_worker_recv(h)
    \/ \E h \in HandshakeWorkers, outcome \in TerminationOutcomes :
         \E wres \in WriteResults(outcome) :
           /\ hpc[h] = "job"
           /\ hjob[h][1] = "Message"
           /\ WriteReturns(h, outcome)
           /\ handshake_worker_message(h, outcome, wres, << >>)
    \/ \E h \in HandshakeWorkers, bres \in Results, sres \in Results :
         handshake_worker_new(h, bres, sres)

NextProgress ==
    \/ \E w \in Readers,
          d \in Offered(TerminationDatagrams, accepted + queued_new, MaxJobs) :
         \E src \in ReadEndpoints(w), rres \in RecvResults(d) :
           udp_worker_read(w, d, src, rres)
    \/ \E w \in Readers : udp_worker_send(w)
    \/ HandshakeWorkerRuns
    \/ \E pk \in PublicKeys :
         accepted + queued_new < MaxJobs /\ queue_handshake(pk)

\* the handshake workers are scheduled fairly, and so is a UDP worker whose
\* send on the channel can complete
SpecProgress ==
    /\ Init
    /\ [][NextProgress]_vars
    /\ WF_vars(HandshakeWorkerRuns)
    /\ \A w \in Readers : WF_vars(udp_worker_send(w))

NextLocks ==
    \/ \E h \in LockThreads, job \in LockJobs : handshake_lock_job(h, job)
    \/ \E h \in LockThreads : handshake_lock_read(h)
    \/ \E h \in LockThreads : handshake_lock_unlock(h)
    \/ \E l \in Locks : config_write_request(l)
    \/ \E l \in Locks : config_write_lock(l)
    \/ \E l \in Locks : config_write_unlock(l)

SpecLocks == InitLocks /\ [][NextLocks]_vars

NextBind ==
    \/ \E port \in BindPorts, fail6 \in BindFailures, fail4 \in BindFailures :
         \E eph6 \in EphemeralPorts, eph4 \in EphemeralPorts :
           bind(port, fail6, eph6, fail4, eph4)
    \/ \E value \in Marks, res6 \in Results, res4 \in Results :
         owner_set_fwmark(value, res6, res4)
    \/ owner_drop
    \/ \E addr \in SocketAddrs : endpoint_from_address(addr)
    \/ endpoint_clear_src
    \/ \E i \in 1..2 : reader_read(i)
    \/ \E buf \in Payloads, sres \in Results : writer_write(buf, sres)

SpecBind == InitBind /\ [][NextBind]_vars

NextPadding ==
    \E in \in PaddingInputs : padding_call(in[1], in[2])

SpecPadding == Init /\ [][NextPadding]_vars

(***************************************************************************)
(* Properties.                                                             *)
(***************************************************************************)
\* the type tag of a datagram of at least four bytes, as it is on the wire:
\* least significant byte first
WireTag(d) == d[1] + d[2] * 256 + d[3] * 65536 + d[4] * 16777216

\* a datagram that the UDP worker has to queue as a handshake message, when
\* it is read with the MTU m
HandshakeDatagram(m, d) ==
    /\ m # 0
    /\ Len(d) >= 4
    /\ WireTag(d) \in {TYPE_INITIATION, TYPE_RESPONSE, TYPE_COOKIE_REPLY}

\* the step taken is an iteration of the UDP worker w that read a datagram
UdpReadStep(w) ==
    /\ upc[w] = "read"
    /\ last'.op = "udp_read"
    /\ last'.who = w

\* the step taken is handshake worker h processing the job it holds
HandshakeJobStep(h) == hpc[h] = "job" /\ hpc'[h] # "job"

\* handshake workers that have taken a job and not yet decremented pending
Undecremented == Cardinality({h \in HandshakeWorkers : hpc[h] = "job"})

\* the calls of the last step whose name is op
CallsOf(op) == {i \in 1..Len(last.calls) : last.calls[i][1] = op}

C2_RefreshedWhenExceeded ==
    \A w \in Readers :
        ( /\ last.op = "udp_read"
          /\ last.who = w
          /\ upc[w] = "send"
          /\ usize_gt(pending, THRESHOLD_UNDER_LOAD) )
        => last_under_load[w] = now

C4_HandshakeDatagramCountedThenQueued ==
    [][ \A w \in Readers :
          /\ ( UdpReadStep(w) /\ HandshakeDatagram(last'.mtu, last'.d) )
             => ( /\ pending' = pending + 1
                  /\ last'.calls = << >>
                  /\ upc'[w] = "send"
                  /\ ujob'[w] = Message(last'.d, last'.src)
                  /\ queue' = queue )
          /\ ( upc[w] = "send" /\ upc'[w] # "send" )
             => ( /\ queue' = Append(queue, ujob[w])
                  /\ ujob[w][1] = "Message"
                  /\ pending' = pending
                  /\ upc'[w] = "read" ) ]_vars

C4_Witness ==
    /\ last.op = "udp_read"
    /\ HandshakeDatagram(last.mtu, last.d)
    /\ WireTag(last.d) = TYPE_RESPONSE
    /\ upc[last.who] = "send"
    /\ pending = 2
    /\ Len(queue) = 1

\* C5: for a datagram that is not a handshake datagram the UDP worker leaves
\* pending and the queue unchanged; it calls router.recv(src, bytes) once if
\* the MTU is not 0, the datagram has at least 4 bytes and its tag is
\* TYPE_TRANSPORT, and makes no call otherwise; in every case, also when
\* router.recv fails, it goes on to the next read.
C5_OtherDatagramsLeaveTheQueue ==
    [][ \A w \in Readers :
          ( UdpReadStep(w) /\ ~HandshakeDatagram(last'.mtu, last'.d) )
          => ( /\ pending' = pending
               /\ queue' = queue
               /\ upc'[w] = "read"
               /\ UNCHANGED <<ujob, last_under_load, peers,
                              handshake_queued, send, mtu, hpc, hjob>>
               /\ IF /\ last'.mtu # 0
                     /\ Len(last'.d) >= 4
                     /\ WireTag(last'.d) = TYPE_TRANSPORT
                  THEN /\ Len(last'.calls) = 1
                       /\ last'.calls[1][1] = "router.recv"
                       /\ last'.calls[1][2] = last'.src
                       /\ last'.calls[1][3] = last'.d
                  ELSE last'.calls = << >> ) ]_vars

C5_Witness ==
    /\ last.op = "udp_read"
    /\ last.calls # << >>
    /\ last.calls[1][4] = "Err"
    /\ upc[last.who] = "read"
    /\ pending = 1

\* the device is under load: some UDP worker saw pending above the threshold
\* no longer than DURATION_UNDER_LOAD ago
UnderLoad ==
    \E w \in Readers : now - last_under_load[w] <= DURATION_UNDER_LOAD

\* C6 (as claimed): a handshake worker that processes a Message job while the
\* device is under load hands the source address of the datagram to process
\* as cookie-validation source, and hands it no source otherwise.
C6_SourceValidatedUnderLoad ==
    last.op = "hs_message"
    => last.calls[1][3] = IF UnderLoad
                          THEN Some(into_address(last.job[3]))
                          ELSE None

\* the last step wrote a reply to the source of the job and the write succeeded
ReplySent ==
    \E i \in CallsOf("write") :
        last.calls[i][3] = last.job[3] /\ last.calls[i][4] = "Ok"

\* process succeeded in the last step and named a peer of the peer map
ProcessNamedPeer ==
    /\ last.op = "hs_message"
    /\ last.outcome[1] = "Ok"
    /\ IsSome(last.outcome[2])
    /\ last.outcome[2][2] \in peers

\* C7 (as claimed): after process succeeded and named a peer of the peer map
\* the worker fires exactly one timer event on that peer:
\* sent_handshake_response if and only if a reply was sent through the
\* writer, timers_handshake_complete otherwise, also when the writer slot is
\* empty.
C7_TimerFollowsReplySent ==
    ProcessNamedPeer
    => LET pk == last.outcome[2][2]
           resp == CallsOf("sent_handshake_response")
           done == CallsOf("timers_handshake_complete")
       IN  /\ Cardinality(resp) + Cardinality(done) = 1
           /\ \A i \in resp \cup done : last.calls[i][2] = pk
           /\ resp # {} <=> ReplySent

\* the number of times x occurs in the sequence s
Count(s, x) == Cardinality({i \in 1..Len(s) : s[i] = x})

\* C8: whenever a handshake worker installs a keypair with add_keypair, every
\* session id that add_keypair returns is released exactly once, no other id
\* is released, and timers_session_derived was called on the peer before.
C8_ReturnedIdsReleasedOnce ==
    last.op = "hs_message"
    => /\ Cardinality(CallsOf("add_keypair")) <= 1
       /\ CallsOf("add_keypair") = {} => CallsOf("release") = {}
       /\ \A i \in CallsOf("add_keypair") :
            LET ids == last.calls[i][4]
                released == [j \in 1..Cardinality(CallsOf("release")) |->
                               last.calls[i + j][2]]
            IN  /\ \A j \in CallsOf("release") : j > i
                /\ \A id \in 1..8 : Count(released, id) = Count(ids, id)
                /\ \E j \in 1..(i - 1) :
                     last.calls[j] = <<"timers_session_derived", last.calls[i][2]>>

C8_Witness ==
    /\ last.op = "hs_message"
    /\ \E i \in CallsOf("add_keypair") : last.calls[i][4] = <<5, 6>>
    /\ Cardinality(CallsOf("release")) = 2

\* the step taken is a step of the TUN, UDP or handshake workers
WorkerStep ==
    last'.op \in {"udp_read", "udp_read_err", "udp_send", "hs_recv",
                  "hs_message", "hs_new", "tun", "tun_read_err"}

\* C9: after a handshake worker has processed New(pk) for a peer of the peer
\* map, handshake_queued of that peer is false, whatever begin and the router
\* returned; sent_handshake_initiation is marked only when begin succeeded;
\* and no other step of the workers changes any handshake_queued flag.
C9_FlagClearedByNewJobOnly ==
    [][ /\ \A h \in HandshakeWorkers :
             ( /\ HandshakeJobStep(h)
               /\ hjob[h][1] = "New"
               /\ hjob[h][2] \in peers )
             => ( /\ handshake_queued' =
                       [handshake_queued EXCEPT ![hjob[h][2]] = FALSE]
                  /\ last'.calls[1][1] = "begin"
                  /\ (\E i \in 1..Len(last'.calls) :
                         last'.calls[i] = <<"sent_handshake_initiation", hjob[h][2]>>)
                     <=> last'.calls[1][3] = "Ok" )
        /\ ( /\ WorkerStep
             /\ ~ \E h \in HandshakeWorkers :
                    /\ HandshakeJobStep(h)
                    /\ hjob[h][1] = "New"
                    /\ hjob[h][2] \in peers )
           => handshake_queued' = handshake_queued ]_vars

C9_Witness ==
    /\ last.op = "hs_new"
    /\ last.job[2] \in peers
    /\ last.calls = << <<"begin", last.job[2], "Err">> >>
    /\ ~handshake_queued[last.job[2]]

\* C10: for every packet the TUN worker reads: with the MTU it loaded being 0
\* router.send is not called; otherwise router.send is called once with a
\* buffer of SIZE_MESSAGE_PREFIX + padded bytes, padded = padding(payload,
\* mtu), padded <= mtu, and padded = mtu or a multiple of
\* MESSAGE_PADDING_MULTIPLE; an error of router.send does not stop the worker.
C10_TunPacketPaddedAndSent ==
    last.op = "tun"
    => /\ tpc = "read"
       /\ IF last.mtu = 0
          THEN last.calls = << >>
          ELSE /\ Len(last.calls) = 1
               /\ last.calls[1][1] = "router.send"
               /\ \E padded \in 0..last.mtu :
                    /\ Len(last.calls[1][2]) = SIZE_MESSAGE_PREFIX + padded
                    /\ padded = padding(last.payload, last.mtu)
                    /\ \/ padded = last.mtu
                       \/ padded % MESSAGE_PADDING_MULTIPLE = 0

C10_Witness ==
    /\ last.op = "tun"
    /\ last.mtu = 20
    /\ last.payload = 17
    /\ last.calls[1][3] = "Err"
    /\ Len(last.calls[1][2]) = SIZE_MESSAGE_PREFIX + 20
    /\ tpc = "read"

\* the least multiple of MESSAGE_PADDING_MULTIPLE that is not below size
LeastMultiple(size) ==
    CHOOSE k \in size..(size + MESSAGE_PADDING_MULTIPLE) :
        /\ k % MESSAGE_PADDING_MULTIPLE = 0
        /\ \A j \in size..(k - 1) : j % MESSAGE_PADDING_MULTIPLE # 0

\* C11: for size <= mtu, padding(size, mtu) is the minimum of mtu and the
\* least multiple of MESSAGE_PADDING_MULTIPLE not below size; hence it lies
\* between size and mtu, is mtu or a multiple, and padding is idempotent; and
\* padding(0, 1500) = 0, padding(1, 1500) = MESSAGE_PADDING_MULTIPLE,
\* padding(1499, 1500) = 1500, padding(1500, 1500) = 1500.
C11_PaddingIsLeastMultipleOrMtu ==
    last.op = "padding"
    => /\ last.padded = Min(last.mtu, LeastMultiple(last.size))
       /\ last.size <= last.padded
       /\ last.padded <= last.mtu
       /\ last.padded = last.mtu \/ last.padded % MESSAGE_PADDING_MULTIPLE = 0
       /\ last.again = last.padded
       /\ (last.mtu = 1500 /\ last.size = 0) => last.padded = 0
       /\ (last.mtu = 1500 /\ last.size = 1) =>
             last.padded = MESSAGE_PADDING_MULTIPLE
       /\ (last.mtu = 1500 /\ last.size \in {1499, 1500}) => last.padded = 1500

C11_Witness ==
    /\ last.op = "padding"
    /\ last.size = 17
    /\ last.mtu = 40
    /\ last.padded = 32

\* the source hint of an endpoint is zero: no interface and no local address
SourceHintZero(e) ==
    IF e[1] = "V4"
    THEN e[3].ipi_ifindex = 0 /\ e[3].ipi_spec_dst = ZeroBytes(4)
    ELSE e[3].ipi6_ifindex = 0 /\ e[3].ipi6_addr = ZeroBytes(16)

\* C12 (as claimed): on a host of either byte order, for every IPv4 and IPv6
\* socket address a, into_address(from_address(a)) = a and from_address sets
\* the source hint to zero; clear_src zeroes the source hint and leaves the
\* result of into_address unchanged.
C12_AddressRoundTrip ==
    /\ last.op = "from_address"
       => /\ into_address(endpoint[2].e) = last.addr
          /\ SourceHintZero(endpoint[2].e)
    /\ last.op = "clear_src"
       => /\ into_address(endpoint[2].e) = into_address(last.before)
          /\ SourceHintZero(endpoint[2].e)

\* the descriptors an owner holds
Held(own) ==
    (IF IsSome(own.sock4) THEN {own.sock4[2]} ELSE {})
    \cup (IF IsSome(own.sock6) THEN {own.sock6[2]} ELSE {})

\* C13 (as claimed): after bind(p) succeeds the port of the owner is the port
\* every socket of the owner is bound to; it is p when p # 0 and not 0 when
\* p = 0.
C13_ReportedPortIsBoundPort ==
    (last.op = "bind" /\ IsOk(last.res))
    => /\ \A fd \in Held(owner[2]) : sockets[fd].port = owner[2].port
       /\ last.port # 0 => owner[2].port = last.port
       /\ last.port = 0 => owner[2].port # 0

\* bind succeeds exactly when a family bound and fails with the IPv6 error
\* otherwise; the owner holds exactly the sockets that bound, and there is
\* one reader per bound socket, of its family, IPv6 first
BindFamiliesAndReaders ==
    last.op = "bind"
    => /\ IsOk(last.res) <=> (IsOk(last.bind6) \/ IsOk(last.bind4))
       /\ ~IsOk(last.res) => (last.res = last.bind6 /\ last.res[2] = "V6")
       /\ ~IsOk(last.res) =>
            (owner = None /\ bind_readers = << >> /\ bind_writer = None)
       /\ IsOk(last.res) =>
            /\ owner[2].sock6 = OkFd(last.bind6)
            /\ owner[2].sock4 = OkFd(last.bind4)
            /\ Held(owner[2]) # {}
            /\ {bind_readers[i][2] : i \in 1..Len(bind_readers)} = Held(owner[2])
            /\ Len(bind_readers) = Cardinality(Held(owner[2]))
            /\ \A i \in 1..Len(bind_readers) :
                 sockets[bind_readers[i][2]].family = bind_readers[i][1]
            /\ (IsOk(last.bind6) /\ IsOk(last.bind4)) =>
                 last.bind6[3] < last.bind4[3]

\* C14 (as claimed): bind(p) tries IPv6 first and then IPv4 on the port the
\* IPv6 socket obtained; it succeeds if and only if one of the two family
\* binds succeeds and returns the IPv6 error when both fail; on success the
\* owner holds exactly the sockets that bound and the reader list has one
\* reader per bound socket, of the matching family.
C14_BindTriesBothFamilies ==
    /\ BindFamiliesAndReaders
    /\ (last.op = "bind" /\ IsOk(last.bind6))
       => last.bind4_port = sockets[last.bind6[3]].port

\* C15 (as claimed): writer.write returns Ok or an I/O error and never
\* aborts its caller; with Ok exactly one datagram with the payload was sent
\* on the socket of the family of the endpoint to the destination of the
\* endpoint; with an error nothing was sent.
C15_WriteSendsOrFails ==
    last.op = "write"
    => /\ last.res \in {"Ok", "Err"}
       /\ last.res = "Err" => last.calls = << >>
       /\ last.res = "Ok" =>
            /\ Len(last.calls) = 1
            /\ sockets[last.calls[1][1]].family = last.dst[1]
            /\ sockets[last.calls[1][1]].open
            /\ last.calls[1][5] = last.buf

\* C16 (as claimed): an endpoint returned by a reader has the address of the
\* sender as destination and the packet info of the datagram as source hint;
\* a write to that endpoint, while clear_src was not called, goes to that
\* destination and attaches that source hint as control message.
C16_ReplyLeavesFromArrivalAddress ==
    /\ last.op = "read"
       => LET e  == endpoint[2].e
              rx == endpoint[2].received[2]
          IN  IF e[1] = "V4"
              THEN /\ to_ne_bytes(host, e[2].s_addr) = rx.sender[2]
                   /\ to_ne_bytes(host, e[2].sin_port) = rx.sender[3]
                   /\ to_ne_bytes(host, e[3].ipi_spec_dst) = rx.pktinfo.local
                   /\ e[3].ipi_ifindex = rx.pktinfo.ifindex
              ELSE /\ e[2].s6_addr = rx.sender[2]
                   /\ to_ne_bytes(host, e[2].sin6_port) = rx.sender[3]
                   /\ e[3].ipi6_addr = rx.pktinfo.local
                   /\ e[3].ipi6_ifindex = rx.pktinfo.ifindex
    /\ (last.op = "write" /\ last.res = "Ok" /\ IsSome(endpoint[2].received))
       => LET rx == endpoint[2].received[2]
          IN  /\ last.calls[1][2] = rx.sender[2]
              /\ last.calls[1][3] = rx.sender[3]
              /\ last.calls[1][4] = << rx.pktinfo >>

\* C17 (as claimed): after set_fwmark(v) returns, with Ok or with an error,
\* all sockets of the bind carry the same mark; with Ok the mark is v, or 0
\* when v is absent.
C17_FwmarkIsAtomic ==
    last.op = "set_fwmark"
    => /\ \A a \in Held(owner[2]), b \in Held(owner[2]) :
            sockets[a].mark = sockets[b].mark
       /\ last.res = "Ok" =>
            \A a \in Held(owner[2]) :
                sockets[a].mark = unwrap_or(last.value, 0)

\* the step taken drops the owner
DropStep == owner[1] = "Some" /\ owner'[1] = "Dropped"

\* C18: dropping the owner closes every socket the owner holds exactly once
\* and leaves it closed, and closes no other socket; no other step (bind,
\* set_fwmark, reader, writer, endpoint or worker step) closes a socket.
C18_DropClosesEachSocketOnce ==
    [][ /\ DropStep =>
             /\ \A fd \in Held(owner[2]) :
                  /\ sockets[fd].open
                  /\ ~sockets'[fd].open
                  /\ sockets'[fd].closes = sockets[fd].closes + 1
                  /\ sockets'[fd].closes = 1
             /\ \A fd \in (1..Len(sockets)) \ Held(owner[2]) :
                  sockets'[fd] = sockets[fd]
        /\ ~DropStep =>
             \A fd \in 1..Len(sockets) :
                  /\ sockets'[fd].open = sockets[fd].open
                  /\ sockets'[fd].closes = sockets[fd].closes ]_vars

C18_Witness ==
    /\ last.op = "drop"
    /\ owner[1] = "Dropped"
    /\ Cardinality(Held(owner[2])) = 2
    /\ \A fd \in Held(owner[2]) : sockets[fd].closes = 1 /\ ~sockets[fd].open

\* the worker that took the step last.op names
StepOf(op) ==
    IF op \in {"udp_read", "udp_read_err", "udp_send"} THEN "udp"
    ELSE IF op \in {"hs_recv", "hs_message", "hs_new", "hs_closed"} THEN "hs"
    ELSE IF op \in {"tun", "tun_read_err"} THEN "tun"
    ELSE "env"

\* a worker that has left its loop, by returning or by unwinding
Stopped(pc) == pc \in {"done", "panicked"}

\* C19: a UDP worker stops only in the step where its reader failed, the TUN
\* worker only in the step where the TUN reader failed, a handshake worker
\* only when the channel is closed and drained; the stopping step makes no
\* call and changes no counter, queue or peer state, a stopped worker takes no
\* further step, and a step of one worker stops no other worker.  So no error
\* of the router, of process, of begin or of the writer stops a worker.
C19_WorkersStopOnInputErrorOnly ==
    [][ /\ \A w \in Readers :
             (~Stopped(upc[w]) /\ Stopped(upc'[w]))
             => ( /\ last'.op = "udp_read_err" /\ last'.who = w
                  /\ last'.calls = << >>
                  /\ UNCHANGED <<pending, queue, handshake_queued, peers,
                                 hpc, tpc>>
                  /\ \A v \in Readers \ {w} : upc'[v] = upc[v] )
        /\ (~Stopped(tpc) /\ Stopped(tpc'))
             => ( /\ last'.op = "tun_read_err"
                  /\ last'.calls = << >>
                  /\ UNCHANGED <<pending, queue, handshake_queued, peers,
                                 hpc, upc>> )
        /\ \A h \in HandshakeWorkers :
             (~Stopped(hpc[h]) /\ Stopped(hpc'[h]))
             => ( /\ last'.op = "hs_closed" /\ last'.who = h
                  /\ rx_closed /\ queue = << >>
                  /\ last'.calls = << >>
                  /\ UNCHANGED <<pending, queue, handshake_queued, peers,
                                 upc, tpc>>
                  /\ \A g \in HandshakeWorkers \ {h} : hpc'[g] = hpc[g] )
        /\ (StepOf(last'.op) = "udp") => ~Stopped(upc[last'.who])
        /\ (StepOf(last'.op) = "hs") => ~Stopped(hpc[last'.who])
        /\ (StepOf(last'.op) = "tun") => ~Stopped(tpc) ]_vars

\* the operations that change the state of a peer: its byte counters, its
\* router endpoint, its timers and its keypairs
PeerOps ==
    {"rx_bytes.fetch_add", "tx_bytes.fetch_add", "set_endpoint",
     "sent_handshake_response", "timers_handshake_complete",
     "timers_session_derived", "add_keypair"}

\* the calls of the last step that change the state of a peer
PeerCallsOfLast == {i \in 1..Len(last.calls) : last.calls[i][1] \in PeerOps}

\* C20: a Message job changes the state of a peer only if process returned
\* Ok with a public key that is in the peer map, and then only of that peer,
\* whose endpoint is set to the source endpoint of the job; when process
\* returns an error nothing is written and no peer changes; when it returns
\* no public key no peer changes.
C20_PeerChangesOnlyWhenAuthenticated ==
    last.op = "hs_message" =>
      /\ PeerCallsOfLast # {}
           => ( /\ last.outcome[1] = "Ok"
                /\ IsSome(last.outcome[2])
                /\ last.outcome[2][2] \in peers
                /\ \A i \in PeerCallsOfLast :
                     last.calls[i][2] = last.outcome[2][2]
                /\ \A i \in CallsOf("set_endpoint") :
                     last.calls[i][3] = last.job[3] )
      /\ last.outcome[1] = "Err"
           => ( /\ CallsOf("write") = {}
                /\ PeerCallsOfLast = {}
                /\ Len(last.calls) = 1 /\ last.calls[1][1] = "process" )
      /\ (last.outcome[1] = "Ok" /\ ~IsSome(last.outcome[2]))
           => PeerCallsOfLast = {}

C20_Witness ==
    /\ last.op = "hs_message"
    /\ last.outcome[1] = "Ok"
    /\ IsSome(last.outcome[2])
    /\ last.outcome[2][2] \in peers
    /\ peers # PublicKeys
    /\ CallsOf("add_keypair") # {}
    /\ \E i \in CallsOf("set_endpoint") :
         last.calls[i] = <<"set_endpoint", last.outcome[2][2], last.job[3]>>

\* C21: pending never underflows and bounds the queued work: in every state
\* the counter has not wrapped below 0 and is at least the number of jobs
\* waiting in the handshake channel, Message jobs and New jobs alike.
C21_PendingBoundsQueuedJobs ==
    /\ pending >= 0
    /\ pending >= Len(queue)

\* the lock thread h is about to take, where it is taking locks
Wanted(h) == LockPlan(lock_job[h])[Len(lock_held[h]) + 1]

\* thread h waits for a read lock that it cannot take
WaitsForRead(h) ==
    /\ lock_phase[h] = "take"
    /\ Len(lock_held[h]) < Len(LockPlan(lock_job[h]))
    /\ ~CanRead(rwlock_kind, Wanted(h), write_waiting, write_held)

\* a set of threads each of which waits behind a waiting writer for a lock
\* that a thread of the set holds: none of them can ever go on
LockDeadlock ==
    \E S \in SUBSET LockThreads :
      /\ S # {}
      /\ \A h \in S :
           /\ WaitsForRead(h)
           /\ Wanted(h) \in write_waiting
           /\ \E g \in S : Wanted(h) \in HeldSet(lock_held[g])

\* every thread that holds both read locks took them in the same order
SameLockOrder ==
    \A h \in LockThreads, g \in LockThreads :
      (Len(lock_held[h]) = 2 /\ Len(lock_held[g]) = 2)
      => lock_held[h] = lock_held[g]

\* C22: every handshake-worker path that holds the handshake-engine read
\* lock and the peer-map read lock took them in the same order, and handshake
\* workers running with configuration writers waiting for the write side of
\* either lock never deadlock.
C22_LocksTakenInOneOrder ==
    /\ SameLockOrder
    /\ ~LockDeadlock

\* the jobs placed on the handshake channel so far
Enqueued == dequeued + Len(queue)

\* the jobs a handshake worker has finished with
Processed == dequeued - Undecremented

\* every job placed on the channel is eventually dequeued and processed
EveryJobProcessed ==
    \A n \in 1..MaxJobs : (Enqueued >= n) ~> (Processed >= n)

\* a UDP worker that waits to send on the channel eventually reads again
BlockedSenderResumes ==
    \A w \in Readers : (upc[w] = "send") ~> (upc[w] = "read")

\* once the arrivals have stopped pending returns to 0 and stays there
PendingReturnsToZero == <>[](pending = 0)

\* C23: with the handshake workers scheduled fairly and every call returning,
\* every job placed on the bounded handshake channel is eventually dequeued
\* and processed, a UDP worker blocked on the full channel eventually resumes,
\* and once handshake datagrams stop arriving pending returns to 0.
C23_QueuedJobsAreProcessed ==
    /\ EveryJobProcessed
    /\ BlockedSenderResumes
    /\ PendingReturnsToZero

\* C24: the TUN worker cuts no payload byte off a packet it forwards: for
\* every packet length the TUN reader can return into the buffer, with the MTU
\* it loaded not 0, router.send is called with a buffer of at least
\* SIZE_MESSAGE_PREFIX + payload bytes.
C24_TunPayloadNotCut ==
    (last.op = "tun" /\ last.mtu # 0)
    => /\ Len(last.calls) = 1
       /\ last.calls[1][1] = "router.send"
       /\ Len(last.calls[1][2]) >= SIZE_MESSAGE_PREFIX + last.payload

\* C25: when bind returns, every descriptor it opened is held by the owner
\* it returned or is closed already; after a bind that failed no descriptor
\* is open.
C25_BindLeaksNoDescriptor ==
    last.op = "bind"
    => \A fd \in 1..Len(sockets) :
         sockets[fd].open
         => (IsOk(last.res) /\ IsSome(owner) /\ fd \in Held(owner[2]))

====
